---- MODULE Spec2Model ----
(***************************************************************************)
(* Model of the pairs trading bot (AlpacaTutorial/Alpaca30/                *)
(* pairs_trading_bot.py).  One run of main() is one cycle; the state file  *)
(* and the broker's positions are what survives between runs.              *)
(*                                                                         *)
(* Numbers: z-scores and thresholds are in tenths (2.0 is 20), p-values in *)
(* hundredths (0.05 is 5), money in whole dollars.  A market order that    *)
(* the broker accepts changes the broker position at once.                 *)
(***************************************************************************)
EXTENDS Integers, Sequences, FiniteSets, TLC

VARIABLES
    file,             \* STATE_FILE: [status, data], see AbsentFile, CorruptFile, JsonFile
    state,            \* the dict `state` of main()
    qty,              \* broker: signed open quantity per symbol
    pc,               \* position of main() in its run; "idle" = not running
    now,              \* clock, one tick per run (datetime.now())
    aligned_len,      \* len(combined), 0 when a frame came back empty
    p_value,          \* result of test_cointegration
    is_cointegrated,
    current_z,        \* stats['z_score']
    account_value,
    has_position_a,
    has_position_b,
    side,             \* argument of execute_pairs_trade
    position_size,
    price_a,          \* get_current_price, 0 for None
    price_b,
    shares_a,
    shares_b,
    close_returned,   \* return value of close_pairs_position, None before it returns
    orders,           \* orders the broker accepted in this run, in order
    rejected,         \* symbols whose order was raised on / swallowed in this run
    decision,         \* branch of the trading logic taken in this run
    series_a,         \* argument of calculate_spread_stats: closes of SYMBOL_A
    series_b,         \* argument of calculate_spread_stats: closes of SYMBOL_B
    lookback,         \* argument of calculate_spread_stats
    stats,            \* the dict calculate_spread_stats returns
    stats_pc,         \* "input": arguments ready; "done": stats returned
    state_file,       \* resilient bot: STATE_FILE, [status, is_in_position]
    is_in_position,   \* resilient bot: the local of run_resilient_bot
    broker_position,  \* resilient bot: the broker holds a position in SYMBOL
    consecutive_errors,
    loop_pc,          \* resilient bot: position of run_resilient_bot
    last_event,       \* resilient bot: outcome of the last order or close
    trail_pc,         \* trailing-stop bot: "running" or "stopped"
    position_held,    \* trailing-stop bot: the broker holds a position in the symbol
    stop_orders,      \* trailing-stop bot: the stop orders at the broker, by id
    active_stop_order_id,  \* trailing-stop bot: the global, 0 for None
    current_price     \* trailing-stop bot: the last trade price it read

\* the variables of a run of main()
bot_vars == <<file, state, qty, pc, now, aligned_len, p_value, is_cointegrated,
              current_z, account_value, has_position_a, has_position_b, side,
              position_size, price_a, price_b, shares_a, shares_b,
              close_returned, orders, rejected, decision>>

\* the variables of a call of calculate_spread_stats
stats_vars == <<series_a, series_b, lookback, stats, stats_pc>>

\* the variables of run_resilient_bot
resilient_vars == <<state_file, is_in_position, broker_position,
                    consecutive_errors, loop_pc, last_event>>

\* the variables of run_manual_trail_bot
trail_vars == <<trail_pc, position_held, stop_orders, active_stop_order_id,
                current_price>>

vars == <<bot_vars, stats_vars, resilient_vars, trail_vars>>

-----------------------------------------------------------------------------
(* Bounds of the model *)

\* number of runs of main() in one behaviour
MaxRuns == 3

\* largest absolute open quantity the broker holds per symbol
MaxQty == 3

\* longest aligned series handed to calculate_spread_stats
MaxLen == 4

\* largest lookback handed to calculate_spread_stats
MaxLookback == 3

\* number of failed cycles in a row the resilient bot is followed through
MaxErrors == 7

\* number of stop orders the trailing-stop bot places in one behaviour
MaxStops == 2

-----------------------------------------------------------------------------
(* Constants of main() *)

SYMBOL_A == "KO"

SYMBOL_B == "PEP"

Z_SCORE_ENTRY == 20

Z_SCORE_EXIT == 5

\* RISK_PER_TRADE = 0.02, in percent
RISK_PER_TRADE == 2

\* p_value < 0.05, in hundredths
COINT_LEVEL == 5

\* calculate_spread_stats(series_a, series_b, lookback=60)
LOOKBACK == 60

Symbols == {SYMBOL_A, SYMBOL_B}

-----------------------------------------------------------------------------
(* Input domains *)

\* z-scores around every threshold of the code and of the specification
ZScores == {-25, -20, -19, -6, -5, 0, 3, 5, 6, 19, 20, 25}

\* p-values of the cointegration test, in hundredths
PValues == {1, 5, 100}

AccountValues == {2500, 10000}

\* get_current_price: 0 stands for None
Prices == {0, 60, 200, 205}

-----------------------------------------------------------------------------
(* Values *)

None == "None"

\* an absent number or timestamp (JSON null), and a present one
Null == <<>>

Some(x) == <<x>>

\* the dict load_state returns when there is no readable file
DefaultState ==
    [position |-> None, entry_z_score |-> Null, entry_time |-> Null,
     symbol_a |-> None, symbol_b |-> None]

\* JSON text of one value, as a token: Python None is written `null`, a str as
\* a string, a float as a number (repr, which reads back to the same float)
JsonString(v) == IF v = None THEN <<"null">> ELSE <<"string", v>>

\* variant: the z-score is written with no decimals
JsonNumber_Rounded(v) ==
    IF v = Null THEN <<"null">> ELSE <<"number", (v[1] \div 10) * 10>>

JsonNumber(v) == IF v = Null THEN <<"null">> ELSE <<"number", v[1]>>

\* entry_time is datetime.now().isoformat(), a str
JsonTime(v) == IF v = Null THEN <<"null">> ELSE <<"string", v[1]>>

\* json.dump(state, f, indent=2): the text of the dict, key by key
json_dump(s) ==
    [position |-> JsonString(s.position),
     entry_z_score |-> JsonNumber(s.entry_z_score),
     entry_time |-> JsonTime(s.entry_time),
     symbol_a |-> JsonString(s.symbol_a),
     symbol_b |-> JsonString(s.symbol_b)]

\* json.load: `null` reads as None, a string as str, a number as float
ParseString(t) == IF t[1] = "null" THEN None ELSE t[2]

ParseNumber(t) == IF t[1] = "null" THEN Null ELSE Some(t[2])

json_load(text) ==
    [position |-> ParseString(text.position),
     entry_z_score |-> ParseNumber(text.entry_z_score),
     entry_time |-> ParseNumber(text.entry_time),
     symbol_a |-> ParseString(text.symbol_a),
     symbol_b |-> ParseString(text.symbol_b)]

\* STATE_FILE does not exist (os.path.exists is False)
AbsentFile == [status |-> "absent", data |-> json_dump(DefaultState)]

\* STATE_FILE exists and json.load raises on it
CorruptFile == [status |-> "corrupt", data |-> json_dump(DefaultState)]

\* STATE_FILE holds the JSON of the dict s
JsonFile(s) == [status |-> "json", data |-> json_dump(s)]

\* load_state(): the JSON content, or the default dict
load_state(f) == IF f.status = "json" THEN json_load(f.data) ELSE DefaultState

\* save_state(state): "ok" writes the record; open() failing leaves the file as
\* it was; json.dump failing after open(.., 'w') leaves a truncated file.  The
\* exception is logged and swallowed in both cases.
SaveOutcomes == {"ok", "open_failed", "dump_failed"}

save_state(f, s, outcome) ==
    CASE outcome = "ok" -> JsonFile(s)
      [] outcome = "open_failed" -> f
      [] OTHER -> CorruptFile

\* test_cointegration: p_value < 0.05; an exception gives (False, 1.0)
test_cointegration(p, failed) ==
    IF failed THEN [is_cointegrated |-> FALSE, p_value |-> 100]
    ELSE [is_cointegrated |-> p < COINT_LEVEL, p_value |-> p]

\* calculate_position_size: account_value * risk_per_trade
calculate_position_size(av) == (av * RISK_PER_TRADE) \div 100

\* variant: the quotient is rounded up
Shares_RoundUp(size, price) == (size + price - 1) \div price

\* int(position_size / price)
Shares(size, price) == size \div price

Abs(n) == IF n < 0 THEN -n ELSE n

-----------------------------------------------------------------------------
(* calculate_spread_stats *)

\* closing prices of the aligned series
SeriesValues == {1, 2, 4}

\* aligned series of one symbol
SeriesSet == UNION {[1..n -> SeriesValues] : n \in 1..MaxLen}

Lookbacks == 1..MaxLookback

RECURSIVE Sum(_)
Sum(s) == IF s = <<>> THEN 0 ELSE Head(s) + Sum(Tail(s))

Squares(s) == [i \in 1..Len(s) |-> s[i] * s[i]]

Sign(n) == IF n > 0 THEN 1 ELSE IF n < 0 THEN -1 ELSE 0

\* the integer part of the square root
ISqrt(x) == CHOOSE r \in 0..x : r * r <= x /\ (r + 1) * (r + 1) > x

\* spread = series_a - series_b
Spread(sa, sb) == [i \in 1..Len(sa) |-> sa[i] - sb[i]]

\* variant: the statistics are taken over the whole series
Window_WholeSeries(spread, lb) == spread

\* the rows rolling(window=lookback) covers at the last row
Window(spread, lb) == SubSeq(spread, Len(spread) - lb + 1, Len(spread))

\* rolling(window=lookback).mean().iloc[-1] as the fraction <<sum, count>>;
\* NaN (Null) while the window is not full
rolling_mean(spread, lb) ==
    IF Len(spread) < lb THEN Null ELSE <<Sum(Window(spread, lb)), lb>>

\* rolling(window=lookback).std().iloc[-1], held as its square, the sample
\* variance (ddof = 1), as a fraction <<numerator, denominator>>; NaN (Null)
\* while the window is not full or holds a single row
rolling_std(spread, lb) ==
    IF Len(spread) < lb \/ lb < 2
    THEN Null
    ELSE LET w == Window(spread, lb)
         IN <<lb * Sum(Squares(w)) - Sum(w) * Sum(w), lb * (lb - 1)>>

\* `current_std > 0`; a comparison with NaN is False
StdPositive(std) == std # Null /\ std[1] > 0

\* (current_spread - current_mean) / current_std, in tenths, cut toward zero
ZScore(x, mean, std) ==
    LET num == x * mean[2] - mean[1]
    IN Sign(num) * ISqrt((100 * num * num * std[2])
                         \div (mean[2] * mean[2] * std[1]))

calculate_spread_stats(sa, sb, lb) ==
    LET spread == Spread(sa, sb)
        current_spread == spread[Len(spread)]
        current_mean == rolling_mean(spread, lb)
        current_std == rolling_std(spread, lb)
    IN [spread |-> current_spread,
        mean |-> current_mean,
        std |-> current_std,
        z_score |-> IF StdPositive(current_std)
                    THEN ZScore(current_spread, current_mean, current_std)
                    ELSE 0]

\* no statistics computed yet
NoStats == [spread |-> 0, mean |-> Null, std |-> Null, z_score |-> 0]

-----------------------------------------------------------------------------
(* resilient_bot.py: state file *)

\* MAX_CONSECUTIVE_ERRORS = 5
MAX_CONSECUTIVE_ERRORS == 5

\* STATE_FILE does not exist
NoStateFile == [status |-> "absent", is_in_position |-> FALSE]

\* STATE_FILE holds no valid JSON
BrokenStateFile == [status |-> "corrupt", is_in_position |-> FALSE]

\* STATE_FILE as json.dump({'is_in_position': v}) leaves it
WrittenStateFile(v) == [status |-> "json", is_in_position |-> v]

StateFiles ==
    {NoStateFile, BrokenStateFile} \cup {WrittenStateFile(v) : v \in BOOLEAN}

\* load_state() then bot_state.get('is_in_position', False)
resilient_load_state(f) == IF f.status = "json" THEN f.is_in_position ELSE FALSE

\* save_state(bot_state): every failure is logged and False is returned
resilient_save_state(f, v, outcome) ==
    CASE outcome = "ok" -> WrittenStateFile(v)
      [] outcome = "open_failed" -> f
      [] OTHER -> BrokenStateFile

\* synchronize_state_with_broker: True, False, or None on an API error
synchronize_state_with_broker(holds, api_error) ==
    IF api_error THEN "None" ELSE IF holds THEN "True" ELSE "False"

\* the resilient bot is not running
ResilientOff ==
    /\ state_file = NoStateFile
    /\ is_in_position = FALSE
    /\ broker_position = FALSE
    /\ consecutive_errors = 0
    /\ loop_pc = "off"
    /\ last_event = "none"

\* the trailing-stop bot is not running
TrailOff ==
    /\ trail_pc = "stopped"
    /\ position_held = FALSE
    /\ stop_orders = <<>>
    /\ active_stop_order_id = 0
    /\ current_price = 0

\* calculate_spread_stats is not being applied
StatsOff ==
    /\ series_a = <<>>
    /\ series_b = <<>>
    /\ lookback = LOOKBACK
    /\ stats = NoStats
    /\ stats_pc = "input"

-----------------------------------------------------------------------------
\* the process before its first run
InitBot ==
    /\ file = AbsentFile
    /\ state = DefaultState
    /\ qty = [s \in Symbols |-> 0]
    /\ pc = "idle"
    /\ now = 0
    /\ aligned_len = 0
    /\ p_value = 100
    /\ is_cointegrated = FALSE
    /\ current_z = 0
    /\ account_value = 0
    /\ has_position_a = FALSE
    /\ has_position_b = FALSE
    /\ side = None
    /\ position_size = 0
    /\ price_a = 0
    /\ price_b = 0
    /\ shares_a = 0
    /\ shares_b = 0
    /\ close_returned = None
    /\ orders = <<>>
    /\ rejected = {}
    /\ decision = "NONE"

Init ==
    /\ InitBot
    /\ StatsOff
    /\ ResilientOff
    /\ TrailOff

\* main() starts: load_state, and every local is fresh
LoadState ==
    /\ pc = "idle"
    /\ now < MaxRuns
    /\ now' = now + 1
    /\ state' = load_state(file)
    /\ pc' = "fetch"
    /\ aligned_len' = 0
    /\ p_value' = 100
    /\ is_cointegrated' = FALSE
    /\ current_z' = 0
    /\ account_value' = 0
    /\ has_position_a' = FALSE
    /\ has_position_b' = FALSE
    /\ side' = None
    /\ position_size' = 0
    /\ price_a' = 0
    /\ price_b' = 0
    /\ shares_a' = 0
    /\ shares_b' = 0
    /\ close_returned' = None
    /\ orders' = <<>>
    /\ rejected' = {}
    /\ decision' = "NONE"
    /\ UNCHANGED <<file, qty>>
    /\ UNCHANGED <<stats_vars, resilient_vars, trail_vars>>

\* the locals of main() that the trading logic does not assign
locals == <<aligned_len, p_value, is_cointegrated, current_z, account_value,
            has_position_a, has_position_b>>

\* the locals of execute_pairs_trade, and what close_pairs_position returned
sizing == <<side, position_size, price_a, price_b, shares_a, shares_b,
            close_returned>>

\* len(combined) < 60
MIN_POINTS == 60

\* lengths of the aligned frame `combined`
AlignedLengths == {59, 60}

\* variant: the run goes on whatever the length of the aligned frame
FetchData_NoCheck ==
    /\ pc = "fetch"
    /\ \E empty \in BOOLEAN, n \in AlignedLengths :
          aligned_len' = IF empty THEN 0 ELSE n
    /\ pc' = "analyze"
    /\ UNCHANGED <<file, state, qty, now, p_value, is_cointegrated, current_z,
                   account_value, has_position_a, has_position_b, sizing,
                   orders, rejected, decision>>
    /\ UNCHANGED <<stats_vars, resilient_vars, trail_vars>>

\* get_historical_data for both symbols, concat and dropna; an empty frame or
\* fewer than 60 aligned rows ends the run
FetchData ==
    /\ pc = "fetch"
    /\ \E empty \in BOOLEAN, n \in AlignedLengths :
          /\ aligned_len' = IF empty THEN 0 ELSE n
          /\ pc' = IF empty \/ n < MIN_POINTS THEN "idle" ELSE "analyze"
    /\ UNCHANGED <<file, state, qty, now, p_value, is_cointegrated, current_z,
                   account_value, has_position_a, has_position_b, sizing,
                   orders, rejected, decision>>
    /\ UNCHANGED <<stats_vars, resilient_vars, trail_vars>>

\* test_cointegration and calculate_spread_stats; the verdict is only logged
Analyze ==
    /\ pc = "analyze"
    /\ \E p \in PValues, failed \in BOOLEAN, z \in ZScores :
          /\ p_value' = test_cointegration(p, failed).p_value
          /\ is_cointegrated' = test_cointegration(p, failed).is_cointegrated
          /\ current_z' = z
    /\ pc' = "account"
    /\ UNCHANGED <<file, state, qty, now, aligned_len, account_value,
                   has_position_a, has_position_b, sizing, orders, rejected,
                   decision>>
    /\ UNCHANGED <<stats_vars, resilient_vars, trail_vars>>

\* variant: the trading logic follows the account query at once, the
\* positions of the legs are not queried
GetAccount_SkipPositions ==
    /\ pc = "account"
    /\ \/ \E av \in AccountValues : account_value' = av /\ pc' = "trade"
       \/ account_value' = account_value /\ pc' = "idle"
    /\ UNCHANGED <<file, state, qty, now, aligned_len, p_value, is_cointegrated,
                   current_z, has_position_a, has_position_b, sizing, orders,
                   rejected, decision>>
    /\ UNCHANGED <<stats_vars, resilient_vars, trail_vars>>

\* trading_client.get_account(); it is not inside a try, so an exception ends
\* the process
GetAccount ==
    /\ pc = "account"
    /\ \/ \E av \in AccountValues : account_value' = av /\ pc' = "positions"
       \/ account_value' = account_value /\ pc' = "idle"
    /\ UNCHANGED <<file, state, qty, now, aligned_len, p_value, is_cointegrated,
                   current_z, has_position_a, has_position_b, sizing, orders,
                   rejected, decision>>
    /\ UNCHANGED <<stats_vars, resilient_vars, trail_vars>>

\* has_position_x: get_open_position returned; every exception (no position,
\* or a failed request) leaves it False
HasPosition(q, error) == q # 0 /\ ~error

CheckPositions ==
    /\ pc = "positions"
    /\ \E errA \in BOOLEAN, errB \in BOOLEAN :
          /\ has_position_a' = HasPosition(qty[SYMBOL_A], errA)
          /\ has_position_b' = HasPosition(qty[SYMBOL_B], errB)
    /\ pc' = "trade"
    /\ UNCHANGED <<file, state, qty, now, aligned_len, p_value, is_cointegrated,
                   current_z, account_value, sizing, orders, rejected, decision>>
    /\ UNCHANGED <<stats_vars, resilient_vars, trail_vars>>

-----------------------------------------------------------------------------
(* Trading logic of main() *)

\* `if has_position_a or has_position_b`
OpenPositionDetected == has_position_a \/ has_position_b

\* variant: with a leg open and a mode set, the mode is turned to the other
\* spread
Reconcile_Flip(s, has_a, has_b) ==
    IF (has_a \/ has_b) /\ s.position # None
    THEN [s EXCEPT !.position = IF @ = "long_spread" THEN "short_spread"
                                 ELSE "long_spread"]
    ELSE s

\* the state with which main() goes on after the position check: no branch of
\* the trading logic assigns to `state` on the ground of the broker's report
\* (a mode with no open leg is kept, an open leg with no mode is closed at
\* the broker and not recorded)
Reconcile(s, has_a, has_b) ==
    IF has_a \/ has_b
    THEN IF s.position # None THEN s ELSE s
    ELSE s

\* state_bot.py, run_state_managed_bot steps 1-2: is_in_position after the
\* comparison with synchronize_state_with_broker's answer
SynchronizedFlag(saved_position, actual_position) ==
    IF actual_position # saved_position THEN actual_position ELSE saved_position

\* the two exit conditions of main()
ExitSignal(position, z) ==
    \/ position = "long_spread" /\ z <= Z_SCORE_EXIT
    \/ position = "short_spread" /\ z >= -Z_SCORE_EXIT

\* variant: the entry threshold itself does not trigger
ShortEntrySignal_Strict(z) == z > Z_SCORE_ENTRY

\* `if current_z >= Z_SCORE_ENTRY`
ShortEntrySignal(z) == z >= Z_SCORE_ENTRY

\* `elif current_z <= -Z_SCORE_ENTRY`
LongEntrySignal(z) == z <= -Z_SCORE_ENTRY

\* variant: the exit is taken only when the pair tested cointegrated
TradeExit_CointGated ==
    /\ pc = "trade"
    /\ OpenPositionDetected
    /\ state.position # None
    /\ ExitSignal(state.position, current_z)
    /\ decision' = IF is_cointegrated THEN "EXIT" ELSE "HOLD"
    /\ pc' = IF is_cointegrated THEN "close_a" ELSE "idle"
    /\ UNCHANGED <<file, state, qty, now, locals, sizing, orders, rejected>>
    /\ UNCHANGED <<stats_vars, resilient_vars, trail_vars>>

\* open position, state['position'] set, exit condition true
TradeExit ==
    /\ pc = "trade"
    /\ OpenPositionDetected
    /\ state.position # None
    /\ ExitSignal(state.position, current_z)
    /\ decision' = "EXIT"
    /\ pc' = "close_a"
    /\ UNCHANGED <<file, state, qty, now, locals, sizing, orders, rejected>>
    /\ UNCHANGED <<stats_vars, resilient_vars, trail_vars>>

\* variant: a held position is written off, the state is cleared
TradeHold_Clear ==
    /\ pc = "trade"
    /\ OpenPositionDetected
    /\ state.position # None
    /\ ~ExitSignal(state.position, current_z)
    /\ decision' = "HOLD"
    /\ state' = [state EXCEPT !.position = None, !.entry_z_score = Null,
                              !.entry_time = Null]
    /\ pc' = "idle"
    /\ UNCHANGED <<file, qty, now, locals, sizing, orders, rejected>>
    /\ UNCHANGED <<stats_vars, resilient_vars, trail_vars>>

\* open position, state['position'] set, no exit condition: "Position held"
TradeHold ==
    /\ pc = "trade"
    /\ OpenPositionDetected
    /\ state.position # None
    /\ ~ExitSignal(state.position, current_z)
    /\ decision' = "HOLD"
    /\ pc' = "idle"
    /\ UNCHANGED <<file, state, qty, now, locals, sizing, orders, rejected>>
    /\ UNCHANGED <<stats_vars, resilient_vars, trail_vars>>

\* variant: the unknown position is taken over as a long spread
TradeOrphan_Adopt ==
    /\ pc = "trade"
    /\ OpenPositionDetected
    /\ state.position = None
    /\ decision' = "ORPHAN"
    /\ state' = [position |-> "long_spread", entry_z_score |-> Some(current_z),
                 entry_time |-> Some(now), symbol_a |-> SYMBOL_A, symbol_b |-> SYMBOL_B]
    /\ pc' = "close_a"
    /\ UNCHANGED <<file, qty, now, locals, sizing, orders, rejected>>
    /\ UNCHANGED <<stats_vars, resilient_vars, trail_vars>>

\* open position, state['position'] None: "Position exists but not in state.
\* Closing..."
TradeOrphan ==
    /\ pc = "trade"
    /\ OpenPositionDetected
    /\ state.position = None
    /\ decision' = "ORPHAN"
    /\ pc' = "close_a"
    /\ UNCHANGED <<file, state, qty, now, locals, sizing, orders, rejected>>
    /\ UNCHANGED <<stats_vars, resilient_vars, trail_vars>>

\* no open position, z-score at or above the entry threshold
TradeEnterShort ==
    /\ pc = "trade"
    /\ ~OpenPositionDetected
    /\ ShortEntrySignal(current_z)
    /\ decision' = "ENTER_SHORT_SPREAD"
    /\ side' = "short_spread"
    /\ position_size' = calculate_position_size(account_value)
    /\ pc' = "prices"
    /\ UNCHANGED <<file, state, qty, now, locals, price_a, price_b, shares_a,
                   shares_b, close_returned, orders, rejected>>
    /\ UNCHANGED <<stats_vars, resilient_vars, trail_vars>>

\* no open position, z-score at or below minus the entry threshold
TradeEnterLong ==
    /\ pc = "trade"
    /\ ~OpenPositionDetected
    /\ ~ShortEntrySignal(current_z)
    /\ LongEntrySignal(current_z)
    /\ decision' = "ENTER_LONG_SPREAD"
    /\ side' = "long_spread"
    /\ position_size' = calculate_position_size(account_value)
    /\ pc' = "prices"
    /\ UNCHANGED <<file, state, qty, now, locals, price_a, price_b, shares_a,
                   shares_b, close_returned, orders, rejected>>
    /\ UNCHANGED <<stats_vars, resilient_vars, trail_vars>>

\* no open position, "No entry signal"
\* variant: the branch without a signal calls save_state(state)
TradeNoSignal_Save ==
    /\ pc = "trade"
    /\ ~OpenPositionDetected
    /\ ~ShortEntrySignal(current_z)
    /\ ~LongEntrySignal(current_z)
    /\ decision' = "HOLD"
    /\ pc' = "idle"
    /\ file' = JsonFile(state)
    /\ UNCHANGED <<state, qty, now, locals, sizing, orders, rejected>>
    /\ UNCHANGED <<stats_vars, resilient_vars, trail_vars>>

TradeNoSignal ==
    /\ pc = "trade"
    /\ ~OpenPositionDetected
    /\ ~ShortEntrySignal(current_z)
    /\ ~LongEntrySignal(current_z)
    /\ decision' = "HOLD"
    /\ pc' = "idle"
    /\ UNCHANGED <<file, state, qty, now, locals, sizing, orders, rejected>>
    /\ UNCHANGED <<stats_vars, resilient_vars, trail_vars>>

-----------------------------------------------------------------------------
(* close_pairs_position *)

\* variant: the closing order repeats the side of the position
CloseOrder_SameSide(symbol, q) ==
    [symbol |-> symbol, side |-> IF q > 0 THEN "BUY" ELSE "SELL", qty |-> Abs(q)]

\* the closing order of a leg: the opposite side, the absolute quantity
CloseOrder(symbol, q) ==
    [symbol |-> symbol, side |-> IF q > 0 THEN "SELL" ELSE "BUY", qty |-> Abs(q)]

\* one leg of close_pairs_position.  With no open position get_open_position
\* raises; with one, the request, building the order or submit_order can
\* raise.  `except: pass` swallows all of it.
CloseLeg(symbol) ==
    \/ /\ qty[symbol] = 0
       /\ UNCHANGED <<qty, orders, rejected>>
    \/ /\ qty[symbol] # 0
       /\ orders' = Append(orders, CloseOrder(symbol, qty[symbol]))
       /\ qty' = [qty EXCEPT ![symbol] = 0]
       /\ UNCHANGED rejected
    \/ /\ qty[symbol] # 0
       /\ rejected' = rejected \cup {symbol}
       /\ UNCHANGED <<qty, orders>>

ClosePositionA ==
    /\ pc = "close_a"
    /\ CloseLeg(SYMBOL_A)
    /\ pc' = "close_b"
    /\ UNCHANGED <<file, state, now, locals, sizing, decision>>
    /\ UNCHANGED <<stats_vars, resilient_vars, trail_vars>>

\* after leg B close_pairs_position returns True; main() ignores the value
ClosePositionB ==
    /\ pc = "close_b"
    /\ CloseLeg(SYMBOL_B)
    /\ close_returned' = "True"
    /\ pc' = IF decision = "EXIT" THEN "clear_state" ELSE "idle"
    /\ UNCHANGED <<file, state, now, locals, side, position_size, price_a,
                   price_b, shares_a, shares_b, decision>>
    /\ UNCHANGED <<stats_vars, resilient_vars, trail_vars>>

\* variant: the exit leaves the entry z-score in the state
ClearedState_KeepZ(s) ==
    [s EXCEPT !.position = None, !.entry_time = Null]

\* the state after an exit
ClearedState(s) ==
    [s EXCEPT !.position = None, !.entry_z_score = Null, !.entry_time = Null]

\* state['position'] = None ... save_state(state), after close_pairs_position
ClearState ==
    /\ pc = "clear_state"
    /\ state' = ClearedState(state)
    /\ \E outcome \in SaveOutcomes : file' = save_state(file, state', outcome)
    /\ pc' = "idle"
    /\ UNCHANGED <<qty, now, locals, sizing, orders, rejected, decision>>
    /\ UNCHANGED <<stats_vars, resilient_vars, trail_vars>>

-----------------------------------------------------------------------------
(* execute_pairs_trade *)

\* variant: only leg A is tested against the minimum of one share
GetPrices_OnlyLegA ==
    /\ pc = "prices"
    /\ \E pa \in Prices, pb \in Prices :
          /\ price_a' = pa
          /\ price_b' = pb
          /\ IF pa = 0 \/ pb = 0
             THEN /\ pc' = "idle"
                  /\ UNCHANGED <<shares_a, shares_b>>
             ELSE /\ shares_a' = Shares(position_size, pa)
                  /\ shares_b' = Shares(position_size, pb)
                  /\ pc' = IF shares_a' < 1 THEN "idle" ELSE "submit_a"
    /\ UNCHANGED <<file, state, qty, now, locals, side, position_size,
                   close_returned, orders, rejected, decision>>
    /\ UNCHANGED <<stats_vars, resilient_vars, trail_vars>>

\* prices and share counts; a missing price or a leg below one share returns
\* False
GetPrices ==
    /\ pc = "prices"
    /\ \E pa \in Prices, pb \in Prices :
          /\ price_a' = pa
          /\ price_b' = pb
          /\ IF pa = 0 \/ pb = 0
             THEN /\ pc' = "idle"
                  /\ UNCHANGED <<shares_a, shares_b>>
             ELSE /\ shares_a' = Shares(position_size, pa)
                  /\ shares_b' = Shares(position_size, pb)
                  /\ pc' = IF shares_a' < 1 \/ shares_b' < 1 THEN "idle" ELSE "submit_a"
    /\ UNCHANGED <<file, state, qty, now, locals, side, position_size,
                   close_returned, orders, rejected, decision>>
    /\ UNCHANGED <<stats_vars, resilient_vars, trail_vars>>

\* variant: both legs take the side of leg A
EntryOrder_SameSide(symbol, sd, n) ==
    [symbol |-> symbol,
     side |-> IF sd = "long_spread" THEN "BUY" ELSE "SELL",
     qty |-> n]

\* order_a and order_b of execute_pairs_trade
EntryOrder(symbol, sd, n) ==
    [symbol |-> symbol,
     side |-> IF (sd = "long_spread") = (symbol = SYMBOL_A) THEN "BUY" ELSE "SELL",
     qty |-> n]

\* the broker position after an accepted order
Filled(q, order) == IF order.side = "BUY" THEN q + order.qty ELSE q - order.qty

\* trading_client.submit_order(order): accepted, or it raises
SubmitOrder(order, nextpc) ==
    \/ /\ Abs(Filled(qty[order.symbol], order)) <= MaxQty
       /\ orders' = Append(orders, order)
       /\ qty' = [qty EXCEPT ![order.symbol] = Filled(@, order)]
       /\ pc' = nextpc
       /\ UNCHANGED rejected
    \/ /\ rejected' = rejected \cup {order.symbol}
       /\ pc' = "idle"
       /\ UNCHANGED <<qty, orders>>

\* variant: after an exception of submit_order(order_a) the function goes on
\* to order_b
SubmitOrderA_Continue ==
    /\ pc = "submit_a"
    /\ \/ SubmitOrder(EntryOrder(SYMBOL_A, side, shares_a), "submit_b")
       \/ /\ rejected' = rejected \cup {SYMBOL_A}
          /\ pc' = "submit_b"
          /\ UNCHANGED <<qty, orders>>
    /\ UNCHANGED <<file, state, now, locals, sizing, decision>>
    /\ UNCHANGED <<stats_vars, resilient_vars, trail_vars>>

\* submit_order(order_a); an exception returns False
SubmitOrderA ==
    /\ pc = "submit_a"
    /\ SubmitOrder(EntryOrder(SYMBOL_A, side, shares_a), "submit_b")
    /\ UNCHANGED <<file, state, now, locals, sizing, decision>>
    /\ UNCHANGED <<stats_vars, resilient_vars, trail_vars>>

\* variant: an exception of submit_order(order_b) is swallowed and the
\* function still returns True
SubmitOrderB_Swallow ==
    /\ pc = "submit_b"
    /\ \/ SubmitOrder(EntryOrder(SYMBOL_B, side, shares_b), "set_state")
       \/ /\ rejected' = rejected \cup {SYMBOL_B}
          /\ pc' = "set_state"
          /\ UNCHANGED <<qty, orders>>
    /\ UNCHANGED <<file, state, now, locals, sizing, decision>>
    /\ UNCHANGED <<stats_vars, resilient_vars, trail_vars>>

\* submit_order(order_b); an exception returns False, else the function
\* returns True
SubmitOrderB ==
    /\ pc = "submit_b"
    /\ SubmitOrder(EntryOrder(SYMBOL_B, side, shares_b), "set_state")
    /\ UNCHANGED <<file, state, now, locals, sizing, decision>>
    /\ UNCHANGED <<stats_vars, resilient_vars, trail_vars>>

\* the state after an entry
EnteredState(sd, z, t) ==
    [position |-> sd, entry_z_score |-> Some(z), entry_time |-> Some(t),
     symbol_a |-> SYMBOL_A, symbol_b |-> SYMBOL_B]

\* execute_pairs_trade returned True: state[...] = ...; save_state(state)
SetState ==
    /\ pc = "set_state"
    /\ state' = EnteredState(side, current_z, now)
    /\ \E outcome \in SaveOutcomes : file' = save_state(file, state', outcome)
    /\ pc' = "idle"
    /\ UNCHANGED <<qty, now, locals, sizing, orders, rejected, decision>>
    /\ UNCHANGED <<stats_vars, resilient_vars, trail_vars>>

-----------------------------------------------------------------------------
Next ==
    \/ LoadState
    \/ FetchData
    \/ Analyze
    \/ GetAccount
    \/ CheckPositions
    \/ TradeExit
    \/ TradeHold
    \/ TradeOrphan
    \/ TradeEnterShort
    \/ TradeEnterLong
    \/ TradeNoSignal
    \/ ClosePositionA
    \/ ClosePositionB
    \/ ClearState
    \/ GetPrices
    \/ SubmitOrderA
    \/ SubmitOrderB
    \/ SetState

Spec == Init /\ [][Next]_vars

-----------------------------------------------------------------------------
(* A run of main() under interruption *)

\* SIGINT while main() runs: KeyboardInterrupt is not an Exception, so no
\* `except Exception` of the program catches it, and main() installs no
\* handler; the process ends where it stands
Interrupt ==
    /\ pc # "idle"
    /\ pc' = "idle"
    /\ UNCHANGED <<file, state, qty, now, locals, sizing, orders, rejected,
                   decision>>
    /\ UNCHANGED <<stats_vars, resilient_vars, trail_vars>>

NextInterrupt ==
    \/ Next
    \/ Interrupt

SpecInterrupt == Init /\ [][NextInterrupt]_vars

-----------------------------------------------------------------------------
(* main() started on the record of an earlier position *)

\* the bot is started with no position at the broker and, in STATE_FILE, the
\* record of an entry committed at time 0 whose exit was not written (a state
\* Spec reaches after an entry and an exit whose save_state failed)
InitStale ==
    /\ \E sd \in {"long_spread", "short_spread"} :
          file = JsonFile(EnteredState(sd,
                                       IF sd = "long_spread"
                                       THEN -Z_SCORE_ENTRY ELSE Z_SCORE_ENTRY,
                                       0))
    /\ state = DefaultState
    /\ qty = [s \in Symbols |-> 0]
    /\ pc = "idle"
    /\ now = 0
    /\ aligned_len = 0
    /\ p_value = 100
    /\ is_cointegrated = FALSE
    /\ current_z = 0
    /\ account_value = 0
    /\ has_position_a = FALSE
    /\ has_position_b = FALSE
    /\ side = None
    /\ position_size = 0
    /\ price_a = 0
    /\ price_b = 0
    /\ shares_a = 0
    /\ shares_b = 0
    /\ close_returned = None
    /\ orders = <<>>
    /\ rejected = {}
    /\ decision = "NONE"
    /\ StatsOff
    /\ ResilientOff
    /\ TrailOff

SpecStale == InitStale /\ [][Next]_vars

-----------------------------------------------------------------------------
(* calculate_spread_stats applied to bounded series *)

\* any two aligned series and any lookback
InitStats ==
    /\ InitBot
    /\ series_a \in SeriesSet
    /\ series_b \in {s \in SeriesSet : Len(s) = Len(series_a)}
    /\ lookback \in Lookbacks
    /\ stats = NoStats
    /\ stats_pc = "input"
    /\ ResilientOff
    /\ TrailOff

\* stats = calculate_spread_stats(series_a, series_b, lookback)
ComputeStats ==
    /\ stats_pc = "input"
    /\ stats' = calculate_spread_stats(series_a, series_b, lookback)
    /\ stats_pc' = "done"
    /\ UNCHANGED <<series_a, series_b, lookback>>
    /\ UNCHANGED <<bot_vars, resilient_vars, trail_vars>>

\* the next run fetches one more aligned bar
NewBar ==
    /\ stats_pc = "done"
    /\ Len(series_a) < MaxLen
    /\ \E a \in SeriesValues, b \in SeriesValues :
          /\ series_a' = Append(series_a, a)
          /\ series_b' = Append(series_b, b)
    /\ stats' = NoStats
    /\ stats_pc' = "input"
    /\ UNCHANGED lookback
    /\ UNCHANGED <<bot_vars, resilient_vars, trail_vars>>

NextStats ==
    \/ ComputeStats
    \/ NewBar

SpecStats == InitStats /\ [][NextStats]_vars

-----------------------------------------------------------------------------
(* resilient_bot.py: run_resilient_bot *)

\* the bot is started with any state file and any broker position
InitResilient ==
    /\ InitBot
    /\ StatsOff
    /\ state_file \in StateFiles
    /\ broker_position \in BOOLEAN
    /\ is_in_position = FALSE
    /\ consecutive_errors = 0
    /\ loop_pc = "off"
    /\ last_event = "none"
    /\ TrailOff

\* Step 1: bot_state = load_state(); is_in_position = bot_state.get(...)
ResilientLoadState ==
    /\ loop_pc = "off"
    /\ is_in_position' = resilient_load_state(state_file)
    /\ loop_pc' = "sync"
    /\ UNCHANGED <<state_file, broker_position, consecutive_errors, last_event>>
    /\ UNCHANGED <<bot_vars, stats_vars, trail_vars>>

\* Step 2: synchronize with the broker; None keeps the saved value, a
\* mismatch is corrected and saved; then consecutive_errors = 0 and the loop
ResilientSynchronize ==
    /\ loop_pc = "sync"
    /\ \E api_error \in BOOLEAN, outcome \in SaveOutcomes :
          LET actual_position ==
                  synchronize_state_with_broker(broker_position, api_error)
          IN IF actual_position = "None"
             THEN UNCHANGED <<is_in_position, state_file>>
             ELSE IF (actual_position = "True") # is_in_position
                  THEN /\ is_in_position' = (actual_position = "True")
                       /\ state_file' = resilient_save_state(state_file,
                                                             is_in_position',
                                                             outcome)
                  ELSE UNCHANGED <<is_in_position, state_file>>
    /\ consecutive_errors' = 0
    /\ loop_pc' = "loop"
    /\ UNCHANGED <<broker_position, last_event>>
    /\ UNCHANGED <<bot_vars, stats_vars, trail_vars>>

\* Steps 3-4 fail (no bars, too few bars, no averages, NaN, KeyError):
\* consecutive_errors += 1, sleep, continue
CycleSkipped ==
    /\ loop_pc = "loop"
    /\ consecutive_errors < MaxErrors
    /\ consecutive_errors' = consecutive_errors + 1
    /\ UNCHANGED <<state_file, is_in_position, broker_position, loop_pc,
                   last_event>>
    /\ UNCHANGED <<bot_vars, stats_vars, trail_vars>>

\* Steps 3-4 succeed: consecutive_errors = 0
DataReady ==
    /\ loop_pc = "loop"
    /\ consecutive_errors' = 0
    /\ loop_pc' = "signal"
    /\ UNCHANGED <<state_file, is_in_position, broker_position, last_event>>
    /\ UNCHANGED <<bot_vars, stats_vars, trail_vars>>

\* an exception in the loop body reaches `except Exception`:
\* consecutive_errors += 1, sleep 60 seconds, next iteration
UnexpectedError ==
    /\ loop_pc \in {"loop", "signal"}
    /\ consecutive_errors < MaxErrors
    /\ consecutive_errors' = consecutive_errors + 1
    /\ loop_pc' = "loop"
    /\ UNCHANGED <<state_file, is_in_position, broker_position, last_event>>
    /\ UNCHANGED <<bot_vars, stats_vars, trail_vars>>

\* variant: the flag is set whether or not the order was submitted
GoldenCross_AlwaysSet ==
    /\ loop_pc = "signal"
    /\ ~is_in_position
    /\ \/ /\ last_event' = "buy_ok"
          /\ broker_position' = TRUE
          /\ is_in_position' = TRUE
          /\ \E outcome \in SaveOutcomes :
                state_file' = resilient_save_state(state_file, TRUE, outcome)
       \/ /\ last_event' = "buy_failed"
          /\ is_in_position' = TRUE
          /\ UNCHANGED <<broker_position, state_file>>
    /\ loop_pc' = "breaker"
    /\ UNCHANGED consecutive_errors
    /\ UNCHANGED <<bot_vars, stats_vars, trail_vars>>

\* not in position, golden cross: submit_market_order(BUY); an order sets and
\* saves is_in_position = True, None leaves everything as it was
GoldenCross ==
    /\ loop_pc = "signal"
    /\ ~is_in_position
    /\ \/ /\ last_event' = "buy_ok"
          /\ broker_position' = TRUE
          /\ is_in_position' = TRUE
          /\ \E outcome \in SaveOutcomes :
                state_file' = resilient_save_state(state_file, TRUE, outcome)
       \/ /\ last_event' = "buy_failed"
          /\ UNCHANGED <<broker_position, is_in_position, state_file>>
    /\ loop_pc' = "breaker"
    /\ UNCHANGED consecutive_errors
    /\ UNCHANGED <<bot_vars, stats_vars, trail_vars>>

\* close_position_safely: True when the position was closed or does not
\* exist, False on a timeout, a connection error or any other error
close_position_safely(holds, failed) ==
    IF failed THEN "close_failed"
    ELSE IF holds THEN "close_ok" ELSE "close_absent"

\* in position, death cross: close_position_safely; True clears and saves
\* is_in_position, False leaves everything as it was
DeathCross ==
    /\ loop_pc = "signal"
    /\ is_in_position
    /\ \E failed \in BOOLEAN :
          /\ last_event' = close_position_safely(broker_position, failed)
          /\ IF last_event' = "close_failed"
             THEN UNCHANGED <<broker_position, is_in_position, state_file>>
             ELSE /\ broker_position' = FALSE
                  /\ is_in_position' = FALSE
                  /\ \E outcome \in SaveOutcomes :
                        state_file' = resilient_save_state(state_file, FALSE,
                                                          outcome)
    /\ loop_pc' = "breaker"
    /\ UNCHANGED consecutive_errors
    /\ UNCHANGED <<bot_vars, stats_vars, trail_vars>>

\* no golden cross while out, no death cross while in
NoSignal ==
    /\ loop_pc = "signal"
    /\ last_event' = "none"
    /\ loop_pc' = "breaker"
    /\ UNCHANGED <<state_file, is_in_position, broker_position,
                   consecutive_errors>>
    /\ UNCHANGED <<bot_vars, stats_vars, trail_vars>>

\* `if consecutive_errors >= MAX_CONSECUTIVE_ERRORS`: pause 5 minutes and
\* reset the counter; else the ordinary sleep
CircuitBreaker ==
    /\ loop_pc = "breaker"
    /\ consecutive_errors' = IF consecutive_errors >= MAX_CONSECUTIVE_ERRORS
                             THEN 0
                             ELSE consecutive_errors
    /\ loop_pc' = "loop"
    /\ UNCHANGED <<state_file, is_in_position, broker_position, last_event>>
    /\ UNCHANGED <<bot_vars, stats_vars, trail_vars>>

\* `except KeyboardInterrupt`: break
KeyboardInterrupt ==
    /\ loop_pc \in {"loop", "signal", "breaker"}
    /\ loop_pc' = "stopped"
    /\ UNCHANGED <<state_file, is_in_position, broker_position,
                   consecutive_errors, last_event>>
    /\ UNCHANGED <<bot_vars, stats_vars, trail_vars>>

NextResilient ==
    \/ ResilientLoadState
    \/ ResilientSynchronize
    \/ CycleSkipped
    \/ DataReady
    \/ UnexpectedError
    \/ GoldenCross
    \/ DeathCross
    \/ NoSignal
    \/ CircuitBreaker
    \/ KeyboardInterrupt

SpecResilient == InitResilient /\ [][NextResilient]_vars

-----------------------------------------------------------------------------
(* manual_trail_bot.py *)

\* TRAIL_PERCENTAGE = 3.0
TRAIL_PERCENTAGE == 3

\* prices of the symbol, in dollars
TrailPrices == {90, 100, 110}

\* round(price * (1 - trail_percentage / 100), 2), in cents
StopPriceFor(price) == price * (100 - TRAIL_PERCENTAGE)

\* variant: the stop follows the price in both directions
MovesUp_Differs(new_stop_price, existing_stop_price) ==
    new_stop_price # existing_stop_price

\* `if new_stop_price > existing_stop_price`
MovesUp(new_stop_price, existing_stop_price) ==
    new_stop_price > existing_stop_price

\* update_trailing_stop: the stop orders at the broker after the call; a
\* failing get_order or replace_order is caught and changes nothing, and the
\* broker replaces only an order that is live
update_trailing_stop(stops, stop_order_id, price, get_failed, replace_failed) ==
    IF /\ ~get_failed
       /\ MovesUp(StopPriceFor(price), stops[stop_order_id].stop_price)
       /\ ~replace_failed
       /\ stops[stop_order_id].live
    THEN [stops EXCEPT ![stop_order_id].stop_price = StopPriceFor(price)]
    ELSE stops

\* the bot starts: no position, no stop order, the global is None
InitTrail ==
    /\ InitBot
    /\ StatsOff
    /\ ResilientOff
    /\ trail_pc = "running"
    /\ position_held = FALSE
    /\ stop_orders = <<>>
    /\ active_stop_order_id = 0
    /\ current_price = 0

\* one iteration with a position reported: manage_existing_position. The
\* second position query failing, a missing stop order id or a failing
\* get_latest_trade returns None; else the stop is updated and the id kept
ManagePosition ==
    /\ trail_pc = "running"
    /\ position_held
    /\ \/ /\ active_stop_order_id' = 0
          /\ UNCHANGED <<stop_orders, current_price>>
       \/ /\ active_stop_order_id # 0
          /\ \E price \in TrailPrices, get_failed \in BOOLEAN,
                replace_failed \in BOOLEAN :
                /\ current_price' = price
                /\ stop_orders' = update_trailing_stop(stop_orders,
                                                       active_stop_order_id,
                                                       price, get_failed,
                                                       replace_failed)
          /\ UNCHANGED active_stop_order_id
    /\ UNCHANGED <<trail_pc, position_held>>
    /\ UNCHANGED <<bot_vars, stats_vars, resilient_vars>>

\* one iteration with no position reported (none held, or get_position
\* raised): the global is reset; on a golden cross enter_long_position buys,
\* reads the entry price and places the initial stop, and returns its id, or
\* None when the buy, the position query or the stop order fails
LookForEntry ==
    /\ trail_pc = "running"
    /\ \/ /\ active_stop_order_id' = 0
          /\ UNCHANGED <<position_held, stop_orders>>
       \/ /\ position_held' = TRUE
          /\ active_stop_order_id' = 0
          /\ UNCHANGED stop_orders
       \/ /\ Len(stop_orders) < MaxStops
          /\ position_held' = TRUE
          /\ \E entry_price \in TrailPrices :
                stop_orders' = Append(stop_orders,
                                      [stop_price |-> StopPriceFor(entry_price),
                                       live |-> TRUE])
          /\ active_stop_order_id' = Len(stop_orders) + 1
    /\ UNCHANGED <<trail_pc, current_price>>
    /\ UNCHANGED <<bot_vars, stats_vars, resilient_vars>>

\* the market trades through a live stop order: the broker sells the position
StopTriggered ==
    /\ trail_pc = "running"
    /\ position_held
    /\ \E id \in 1..Len(stop_orders) :
          /\ stop_orders[id].live
          /\ stop_orders' = [stop_orders EXCEPT ![id].live = FALSE]
    /\ position_held' = FALSE
    /\ UNCHANGED <<trail_pc, active_stop_order_id, current_price>>
    /\ UNCHANGED <<bot_vars, stats_vars, resilient_vars>>

\* `except Exception` of the loop: active_stop_order_id = None, sleep 60
TrailLoopError ==
    /\ trail_pc = "running"
    /\ active_stop_order_id' = 0
    /\ UNCHANGED <<trail_pc, position_held, stop_orders, current_price>>
    /\ UNCHANGED <<bot_vars, stats_vars, resilient_vars>>

\* `except KeyboardInterrupt`: cancel the active stop order, if any, and break
TrailInterrupt ==
    /\ trail_pc = "running"
    /\ trail_pc' = "stopped"
    /\ \/ UNCHANGED stop_orders
       \/ /\ active_stop_order_id # 0
          /\ stop_orders' =
                [stop_orders EXCEPT ![active_stop_order_id].live = FALSE]
    /\ UNCHANGED <<position_held, active_stop_order_id, current_price>>
    /\ UNCHANGED <<bot_vars, stats_vars, resilient_vars>>

NextTrail ==
    \/ ManagePosition
    \/ LookForEntry
    \/ StopTriggered
    \/ TrailLoopError
    \/ TrailInterrupt

SpecTrail == InitTrail /\ [][NextTrail]_vars

TypeOK ==
    /\ file.status \in {"absent", "corrupt", "json"}
    /\ state.position \in {None, "long_spread", "short_spread"}
    /\ \A s \in Symbols : qty[s] \in -MaxQty..MaxQty
    /\ now \in 0..MaxRuns
    /\ Len(orders) <= 2
    /\ rejected \subseteq Symbols

-----------------------------------------------------------------------------
(* Properties *)

EnterDecisions == {"ENTER_SHORT_SPREAD", "ENTER_LONG_SPREAD"}

Modes == {"long_spread", "short_spread"}

\* the mode a restart would read from storage
PersistedMode(f) == load_state(f).position

\* both entry orders were accepted in this run: leg A first, leg B second
BothLegsSubmitted ==
    /\ Len(orders) = 2
    /\ orders[1] = EntryOrder(SYMBOL_A, side, shares_a)
    /\ orders[2] = EntryOrder(SYMBOL_B, side, shares_b)
    /\ rejected = {}

\* C1: within a run, the state or the stored record takes a spread mode (with
\* entry z-score and entry time) only in the step that follows the acceptance
\* of both leg orders; a step in which a leg order of an entry is rejected
\* ends the run and leaves the state and the stored record as they were.
C1_EntryOnlyAfterBothLegs ==
    [][ /\ ( /\ pc # "idle"
             /\ \/ state'.position \in Modes /\ state' # state
                \/ PersistedMode(file') \in Modes /\ file' # file )
           => /\ pc = "set_state"
              /\ BothLegsSubmitted
              /\ state'.position = side
              /\ state'.entry_z_score = Some(current_z)
              /\ state'.entry_time = Some(now)
        /\ (pc \in {"submit_a", "submit_b"} /\ rejected' # rejected)
           => /\ pc' = "idle"
              /\ state' = state
              /\ file' = file ]_vars

\* C1 witness: a run ended with leg A accepted and leg B rejected, from FLAT,
\* and the mode in memory and in storage is still FLAT
C1_Witness ==
    /\ pc = "idle"
    /\ decision \in EnterDecisions
    /\ Len(orders) = 1
    /\ orders[1].symbol = SYMBOL_A
    /\ rejected = {SYMBOL_B}
    /\ state.position = None
    /\ PersistedMode(file) = None

\* C2: on an exit, once the closing order of an open leg was not submitted,
\* the state and the stored record stay as they were.
C2_ExitOnlyIfLegsClosed ==
    [][ (pc # "idle" /\ decision = "EXIT" /\ rejected # {})
        => (state' = state /\ file' = file) ]_vars

\* C3: with mode FLAT and the cointegration verdict false, no entry is
\* decided, for every z-score.
C3_NotCointegratedHolds ==
    [][ (pc = "trade" /\ state.position = None /\ ~is_cointegrated)
        => decision' \notin EnterDecisions ]_vars

C5_LongExitDecision ==
    [][ (pc = "trade" /\ state.position = "long_spread" /\ OpenPositionDetected)
        => decision' = IF current_z >= -Z_SCORE_EXIT THEN "EXIT" ELSE "HOLD" ]_vars

\* C6: with mode SHORT_SPREAD (and the position open) the decision is EXIT iff
\* z <= exit threshold, HOLD otherwise; a run that exits leaves mode FLAT.
C6_ShortExitDecision ==
    [][ /\ (pc = "trade" /\ state.position = "short_spread" /\ OpenPositionDetected)
           => decision' = IF current_z <= Z_SCORE_EXIT THEN "EXIT" ELSE "HOLD"
        /\ (pc = "clear_state" /\ pc' = "idle") => state'.position = None ]_vars

\* C7: an entry is evaluated only with mode FLAT, an exit only with mode not
\* FLAT.
C7_DecisionCoupling ==
    [][ pc = "trade"
        => /\ decision' \in EnterDecisions => state.position = None
           /\ decision' = "EXIT" => state.position # None ]_vars

\* C8: the persisted mode never goes from LONG_SPREAD to SHORT_SPREAD or from
\* SHORT_SPREAD to LONG_SPREAD in one step.
C8_ModeTransitions ==
    [][ \/ PersistedMode(file') = PersistedMode(file)
        \/ PersistedMode(file) = None
        \/ PersistedMode(file') = None ]_vars

\* C9: when the trading decision is taken with no open position at the broker
\* in either leg, the mode is FLAT with entry z-score and entry time cleared,
\* in memory and in storage.
C9_ResetWhenBrokerFlat ==
    (pc = "trade" /\ qty[SYMBOL_A] = 0 /\ qty[SYMBOL_B] = 0)
    => /\ state.position = None
       /\ state.entry_z_score = Null
       /\ state.entry_time = Null
       /\ load_state(file) = state

\* C10: when the position check finds an open position in a leg while the mode
\* is FLAT, the run takes the orphan branch, and no step of that run changes
\* the state or the stored record: mode stays FLAT, entry z-score and entry
\* time stay null.
C10_OrphanNotAdopted ==
    [][ /\ (pc = "trade" /\ OpenPositionDetected /\ state.position = None)
           => decision' = "ORPHAN"
        /\ (decision' = "ORPHAN" /\ pc # "idle")
           => /\ state' = state
              /\ file' = file
              /\ state'.position = None
              /\ state'.entry_z_score = Null
              /\ state'.entry_time = Null
              /\ PersistedMode(file') = None ]_vars

\* C10 witness: a run that found an orphaned leg has ended, a closing order
\* went out, and the mode is FLAT in memory and in storage
C10_Witness ==
    /\ pc = "idle"
    /\ decision = "ORPHAN"
    /\ Len(orders) >= 1
    /\ state.position = None
    /\ state.entry_z_score = Null
    /\ PersistedMode(file) = None

\* the open quantities of both legs have the signs of the mode
ConsistentWithMode(mode, q) ==
    \/ mode = "long_spread" /\ q[SYMBOL_A] > 0 /\ q[SYMBOL_B] < 0
    \/ mode = "short_spread" /\ q[SYMBOL_A] < 0 /\ q[SYMBOL_B] > 0

\* C11: when both legs are open at the broker with the signs of the persisted
\* mode, the position check and the branch taken on its report leave the
\* state (mode, entry z-score, entry time, symbols) and the stored record as
\* they were loaded.
C11_ConsistentNoChange ==
    [][ ( /\ pc \in {"positions", "trade"}
          /\ ConsistentWithMode(PersistedMode(file), qty)
          /\ (pc = "trade" => has_position_a /\ has_position_b) )
        => /\ state = load_state(file)
           /\ state' = state
           /\ file' = file ]_vars

\* C11 witness: a run found both legs open as the stored long spread says, held
\* the position and ended with the state and the record as loaded
C11_Witness ==
    /\ pc = "idle"
    /\ decision = "HOLD"
    /\ has_position_a
    /\ has_position_b
    /\ state.position = "long_spread"
    /\ ConsistentWithMode(state.position, qty)
    /\ file = JsonFile(state)
C14_StoredEqualsMemory ==
    pc = "idle" => load_state(file) = state
\* C15: when the budget buys less than one share of either leg, the entry ends
\* the run at once: no order goes out for either leg, and the state and the
\* stored record stay as they were.
C15_TooSmallNoOrders ==
    [][ ( /\ pc = "prices"
          /\ price_a' # 0
          /\ price_b' # 0
          /\ (position_size < price_a' \/ position_size < price_b') )
        => /\ pc' = "idle"
           /\ orders' = <<>>
           /\ rejected' = {}
           /\ qty' = qty
           /\ state' = state
           /\ file' = file ]_vars

\* C15 witness: equity 10000, budget 200, price of A 60 (3 shares), price of
\* B 205 (0 shares): the run ended with no order and the state as loaded
C15_Witness ==
    /\ pc = "idle"
    /\ decision \in EnterDecisions
    /\ account_value = 10000
    /\ position_size = 200
    /\ price_a = 60
    /\ shares_a = 3
    /\ price_b = 205
    /\ shares_b = 0
    /\ orders = <<>>
    /\ state = load_state(file)

\* the price main() got for a symbol
PriceOf(symbol) == IF symbol = SYMBOL_A THEN price_a ELSE price_b

C17_OpposingSides ==
    decision \in EnterDecisions
    => /\ \A i \in 1..Len(orders) :
             /\ orders[i].symbol = IF i = 1 THEN SYMBOL_A ELSE SYMBOL_B
             /\ orders[i].side =
                   IF (decision = "ENTER_LONG_SPREAD") = (orders[i].symbol = SYMBOL_A)
                   THEN "BUY" ELSE "SELL"
       /\ pc = "set_state"
          => /\ Len(orders) = 2
             /\ orders[1].side # orders[2].side
             /\ side = IF decision = "ENTER_LONG_SPREAD" THEN "long_spread"
                       ELSE "short_spread"

\* C17 witness: a short-spread entry went through: SELL A, BUY B, and the state
\* says short_spread
C17_Witness ==
    /\ pc = "idle"
    /\ decision = "ENTER_SHORT_SPREAD"
    /\ Len(orders) = 2
    /\ orders[1].symbol = SYMBOL_A
    /\ orders[1].side = "SELL"
    /\ orders[2].symbol = SYMBOL_B
    /\ orders[2].side = "BUY"
    /\ state.position = "short_spread"
C19_InsufficientData ==
    [][ /\ (pc = "fetch" /\ aligned_len' < LOOKBACK)
           => ( /\ pc' = "idle"
                /\ orders' = <<>>
                /\ rejected' = {}
                /\ decision' = "NONE"
                /\ qty' = qty
                /\ state' = state
                /\ file' = file )
        /\ pc' \notin {"idle", "fetch"} => aligned_len' >= LOOKBACK ]_vars

\* C19 witness: a run that started in a position ended on a short series
C19_Witness ==
    /\ pc = "idle"
    /\ now > 0
    /\ aligned_len = 59
    /\ state.position \in Modes
    /\ qty[SYMBOL_A] # 0
    /\ orders = <<>>
    /\ decision = "NONE"
\* C20: once calculate_spread_stats has returned for a series that fills the
\* window (of two rows or more), with S and Q the sum and the sum of squares of
\* the last `lookback` spreads, x the last spread and V = n*Q - S*S: the mean is
\* S/n; when V > 0 the z-score in tenths is (x - S/n) / sqrt(V / (n*(n-1)))
\* cut toward zero; when V = 0 the z-score is 0.
C20_ZScore ==
    (stats_pc = "done" /\ Len(series_a) >= lookback /\ lookback >= 2)
    => LET n == lookback
           last == Len(series_a)
           w == [i \in 1..n |-> series_a[last - n + i] - series_b[last - n + i]]
           x == series_a[last] - series_b[last]
           S == Sum(w)
           V == n * Sum([i \in 1..n |-> w[i] * w[i]]) - S * S
           num == n * x - S
           z == stats.z_score
       IN /\ stats.spread = x
          /\ stats.mean[1] * n = S * stats.mean[2]
          /\ V = 0 => z = 0
          /\ V > 0 => /\ z * z * n * V <= 100 * num * num * (n - 1)
                      /\ 100 * num * num * (n - 1) < (Abs(z) + 1) * (Abs(z) + 1) * n * V
                      /\ z > 0 => num > 0
                      /\ z < 0 => num < 0

\* C20 witness: a series longer than the window, whose window has a positive
\* deviation and a non-zero z-score, and whose earlier rows would change it
C20_Witness ==
    /\ stats_pc = "done"
    /\ Len(series_a) > lookback
    /\ lookback >= 2
    /\ StdPositive(stats.std)
    /\ stats.z_score # 0
    /\ stats.z_score
         # calculate_spread_stats(series_a, series_b, Len(series_a)).z_score

\* C20 witness of the guard: a full window of equal spreads, z-score 0
C20_WitnessZeroStd ==
    /\ stats_pc = "done"
    /\ Len(series_a) >= lookback
    /\ lookback >= 2
    /\ series_a[Len(series_a)] # series_a[Len(series_a) - 1]
    /\ stats.std # Null
    /\ stats.std[1] = 0
    /\ stats.z_score = 0
\* C22: in a run whose mode is not FLAT and that found a leg open, the
\* decision is EXIT exactly when the exit condition of the mode holds for the
\* z-score, and then the closing of the legs begins, whatever the verdict and
\* the p-value of the cointegration test; and each closing order is the one the
\* open quantity alone determines.
C22_CointNeverBlocksExit ==
    [][ /\ (pc = "trade" /\ OpenPositionDetected /\ state.position \in Modes)
           => ( /\ (decision' = "EXIT") <=> ExitSignal(state.position, current_z)
                /\ (decision' = "HOLD") <=> ~ExitSignal(state.position, current_z)
                /\ (decision' = "EXIT") => pc' = "close_a" )
        /\ \A symbol \in Symbols :
              ( /\ pc = (IF symbol = SYMBOL_A THEN "close_a" ELSE "close_b")
                /\ orders' # orders )
              => orders' = Append(orders, CloseOrder(symbol, qty[symbol])) ]_vars

\* C22 witness: both legs were closed on an exit in a run whose cointegration
\* test did not find the pair cointegrated
C22_Witness ==
    /\ pc = "clear_state"
    /\ decision = "EXIT"
    /\ ~is_cointegrated
    /\ p_value = 100
    /\ Len(orders) = 2
    /\ rejected = {}
\* C23: an order is submitted (accepted or refused) only in a closing or an
\* entry step; such a step is reached only through the trading logic, the
\* trading logic only through the query of the positions of both legs, and
\* that query only through the steps that follow the loading of the state
\* file at the start of the run.
C23_LoadAndQueryBeforeOrders ==
    [][ /\ (orders' # orders \/ rejected' # rejected) /\ pc # "idle"
           => pc \in {"close_a", "close_b", "submit_a", "submit_b"}
        /\ pc' \in {"close_a", "prices"} => pc = "trade"
        /\ pc' = "close_b" => pc = "close_a"
        /\ pc' = "submit_a" => pc = "prices"
        /\ pc' = "submit_b" => pc = "submit_a"
        /\ pc' = "trade"
           => ( /\ pc = "positions"
                /\ has_position_a' => qty[SYMBOL_A] # 0
                /\ has_position_b' => qty[SYMBOL_B] # 0 )
        /\ pc' = "positions" => pc = "account"
        /\ pc' = "account" => pc = "analyze"
        /\ pc' = "analyze" => pc = "fetch"
        /\ pc' = "fetch" => (pc = "idle" /\ state' = load_state(file)) ]_vars

\* C23 witness: in a run that loaded a stored record, leg A of an entry has
\* been accepted
C23_Witness ==
    /\ pc = "submit_b"
    /\ file.status = "json"
    /\ state = load_state(file)
    /\ Len(orders) = 1
    /\ now > 1
\* C24: a step of a run in which an error occurs (a data fetch that returns an
\* empty frame, an account query that raises, an order the broker refuses)
\* leaves the process running.
C24_ErrorKeepsProcessRunning ==
    [][ ( \/ pc = "fetch" /\ aligned_len' = 0
          \/ pc = "account" /\ account_value' = account_value
          \/ pc \in {"submit_a", "submit_b"} /\ rejected' # rejected )
        => pc' # "idle" ]_vars

\* C27: a run of an entry in which leg A was accepted and leg B refused has,
\* when it ends, attempted an order that unwinds leg A.
C27_CompensationAttempted ==
    ( /\ pc = "idle"
      /\ decision \in EnterDecisions
      /\ Len(orders) >= 1
      /\ orders[1].symbol = SYMBOL_A
      /\ SYMBOL_B \in rejected )
    => \/ SYMBOL_A \in rejected
       \/ \E i \in 2..Len(orders) :
             /\ orders[i].symbol = SYMBOL_A
             /\ orders[i].side # orders[1].side
\* C26: once leg A of an entry has been accepted, the run does not stop before
\* the order of leg B has been submitted (accepted or refused), and once both
\* legs are accepted it does not stop before the mode has been set and saved.
C26_NoStopInsideEntry ==
    [][ /\ pc = "submit_b" => (orders' # orders \/ rejected' # rejected)
        /\ pc = "set_state" => (state'.position \in Modes /\ pc' = "idle") ]_vars
\* C28: in the loop of the resilient bot, a BUY that was not submitted leaves
\* is_in_position False and the state file as it was; a close that failed
\* leaves is_in_position True and the state file as it was; a close that found
\* no position counts as a success and clears the flag; and is_in_position
\* changes in no step but the one of a submitted order or a successful close.
C28_FlagFollowsOrders ==
    [][ (loop_pc \in {"loop", "signal", "breaker"})
        => ( /\ (loop_pc = "signal" /\ last_event' = "buy_failed")
                => (~is_in_position' /\ state_file' = state_file)
             /\ (loop_pc = "signal" /\ last_event' = "close_failed")
                => (is_in_position' /\ state_file' = state_file)
             /\ (loop_pc = "signal" /\ last_event' = "close_absent")
                => ~is_in_position'
             /\ (is_in_position' # is_in_position \/ state_file' # state_file)
                => ( /\ loop_pc = "signal"
                     /\ is_in_position
                        => last_event' \in {"close_ok", "close_absent"}
                     /\ ~is_in_position => last_event' = "buy_ok" ) ) ]_vars

\* C28 witness: a close has just failed with the position held at the broker;
\* the flag and the file still say the bot is in position
C28_Witness ==
    /\ loop_pc = "breaker"
    /\ last_event = "close_failed"
    /\ broker_position
    /\ is_in_position
    /\ state_file = WrittenStateFile(TRUE)

\* C29: consecutive_errors never exceeds MAX_CONSECUTIVE_ERRORS.
C29_ErrorsBounded == consecutive_errors <= MAX_CONSECUTIVE_ERRORS

\* C30: once the loop of the resilient bot runs after the startup
\* synchronization and before any order, is_in_position equals whether the
\* broker holds a position.
C30_BrokerIsTruthAtStartup ==
    (loop_pc = "loop" /\ last_event = "none")
    => is_in_position = broker_position
\* C31: the stop price of a stop order never decreases, and it changes only
\* for the order the bot holds the id of, only while that order is live, and
\* only to the stop price of the last price read, which is then strictly
\* greater than the price it replaces.
C31_StopOnlyMovesUp ==
    [][ \A id \in 1..Len(stop_orders) :
          /\ Len(stop_orders') >= Len(stop_orders)
          /\ stop_orders'[id].stop_price >= stop_orders[id].stop_price
          /\ stop_orders'[id].stop_price # stop_orders[id].stop_price
             => ( /\ id = active_stop_order_id
                  /\ stop_orders[id].live
                  /\ stop_orders'[id].stop_price
                       = current_price' * (100 - TRAIL_PERCENTAGE)
                  /\ stop_orders'[id].stop_price > stop_orders[id].stop_price ) ]_vars

\* C31 witness: the stop was raised to the stop price of 110, and a later
\* price of 90 has left it there
C31_Witness ==
    /\ trail_pc = "running"
    /\ active_stop_order_id = 1
    /\ stop_orders[1].live
    /\ stop_orders[1].stop_price = 110 * (100 - TRAIL_PERCENTAGE)
    /\ current_price = 90

\* C32: while the bot runs and the broker holds a position, the global
\* active_stop_order_id refers to a live stop order.
C32_PositionProtected ==
    (trail_pc = "running" /\ position_held)
    => ( /\ active_stop_order_id # 0
         /\ stop_orders[active_stop_order_id].live )
\* C33: in the state in memory and in the state a restart would load from the
\* file, the mode is FLAT exactly when the entry z-score is null, and exactly
\* when the entry time is null.
C33_ModeAndEntryFieldsTogether ==
    \A s \in {state, load_state(file)} :
       /\ (s.position = None) <=> (s.entry_z_score = Null)
       /\ (s.position = None) <=> (s.entry_time = Null)
       /\ s.position \in Modes \cup {None}

\* C33 witness: a run has exited a position entered by an earlier run and has
\* written the cleared state
C33_Witness ==
    /\ pc = "idle"
    /\ decision = "EXIT"
    /\ state.position = None
    /\ state.symbol_a = SYMBOL_A
    /\ file.status = "json"
    /\ load_state(file) = state
\* C34: a run that finds the position of the recorded mode open while the
\* z-score is still the one recorded at the entry does not decide to exit.
C34_EntryZDoesNotExit ==
    [][ ( /\ pc = "trade"
          /\ OpenPositionDetected
          /\ state.position \in Modes
          /\ state.entry_z_score = Some(current_z) )
        => decision' # "EXIT" ]_vars
\* C35: when the first order of an entry is submitted (accepted or refused),
\* the broker holds no open quantity in either leg.
C35_NoEntryOnOpenPosition ==
    [][ (pc = "submit_a" /\ (orders' # orders \/ rejected' # rejected))
        => (qty[SYMBOL_A] = 0 /\ qty[SYMBOL_B] = 0) ]_vars
\* C36: the trading logic never weighs an exit for a position found open at
\* the broker against the record of the earlier position (the one committed at
\* time 0, before the broker was flat).
C36_StaleRecordNotApplied ==
    ~ ( /\ pc = "trade"
        /\ OpenPositionDetected
        /\ state.position \in Modes
        /\ state.entry_time = Some(0) )
\* C37: in an entry the order of leg B is submitted only after the order of
\* leg A was accepted in the same run, and a run whose entry failed has
\* submitted nothing that was accepted, or the order of leg A alone.
C37_LegAThenLegB ==
    [][ ( (pc = "submit_b" /\ (orders' # orders \/ rejected' # rejected))
          => ( /\ orders = <<EntryOrder(SYMBOL_A, side, shares_a)>>
               /\ rejected = {} ) )
        /\ ( (pc \in {"submit_a", "submit_b"} /\ rejected' # rejected)
             => ( /\ pc' = "idle"
                  /\ orders' \in {<<>>, <<EntryOrder(SYMBOL_A, side, shares_a)>>}
                  /\ \A i \in 1..Len(orders') : orders'[i].symbol # SYMBOL_B ) ) ]_vars

\* C37 witness: an entry ended with the order of leg A accepted and the order
\* of leg B refused
C37_Witness ==
    /\ pc = "idle"
    /\ decision \in EnterDecisions
    /\ orders = <<EntryOrder(SYMBOL_A, side, shares_a)>>
    /\ rejected = {SYMBOL_B}
    /\ qty[SYMBOL_A] # 0

\* C38: a run that decides to hold (no position reported and the z-score
\* strictly inside the entry band, or a position reported with a recorded mode
\* whose exit condition is false) has submitted no order, and leaves the state
\* in memory and the stored record as they were loaded.
C38_HoldChangesNothing ==
    [][ (pc = "trade" /\ decision' = "HOLD")
        => ( /\ orders' = <<>>
             /\ rejected' = {}
             /\ qty' = qty
             /\ state' = state
             /\ file' = file
             /\ state' = load_state(file')
             /\ \/ /\ ~OpenPositionDetected
                   /\ current_z < Z_SCORE_ENTRY
                   /\ current_z > -Z_SCORE_ENTRY
                \/ /\ OpenPositionDetected
                   /\ state.position \in Modes
                   /\ ~ExitSignal(state.position, current_z) ) ]_vars

\* C38 witness: a run that found no position and no entry signal has ended,
\* in a later run than the first, without an order
C38_Witness ==
    /\ pc = "idle"
    /\ decision = "HOLD"
    /\ now >= 2
    /\ ~has_position_a
    /\ ~has_position_b
    /\ state.position = None
    /\ orders = <<>>
    /\ rejected = {}

\* C39: when a run reaches the trading logic while the broker holds leg A
\* alone and the mode is FLAT, it goes on to close the open leg: it takes the
\* orphan branch, not an entry and not a hold.
C39_OneLegUnwound ==
    [][ ( /\ pc = "trade"
          /\ qty[SYMBOL_A] # 0
          /\ qty[SYMBOL_B] = 0
          /\ state.position = None )
        => ( decision' = "ORPHAN" /\ pc' = "close_a" ) ]_vars
====
